---- MODULE Spec2Model ----
(***************************************************************************)
(* Model of the two scripts of ratwolfzero/Cellular-Automaton:             *)
(*   cellular_automata.py        (no statistics, apply_rule works in place)*)
(*   cellular_w_statistics.py    (population / entropy series, plt.pause)  *)
(* Definitions of the second script carry the suffix _w_statistics where   *)
(* the two scripts define the same name differently.                       *)
(*                                                                         *)
(* Arrays are functions indexed from 0 as in numpy: a[r][c].               *)
(* Strings are sequences of one-character strings.                         *)
(***************************************************************************)
EXTENDS Integers, Sequences, FiniteSets, TLC

VARIABLES
    script,             \* 1: cellular_automata.py, 2: cellular_w_statistics.py, 0: no run
    grid,               \* contents of the global array `grid`
    birth_conditions,   \* main(): parse_rule(RULE)[0]
    survive_conditions, \* main(): parse_rule(RULE)[1]
    kernel,             \* main(): create_kernel(KERNEL_SIZE)
    population_counts,  \* global list (cellular_w_statistics.py)
    entropy_values,     \* global list (cellular_w_statistics.py)
    event_source,       \* ani.event_source: "running", "stopped" or "None"
    open_figs,          \* the figures whose window is still open
    in_pause,           \* number of update calls that are inside plt.pause
    n_updates,          \* number of update calls started so far
    closed,             \* on_close has run for a close event
    call                \* the last direct call of a function (function-level runs)

vars == <<script, grid, birth_conditions, survive_conditions, kernel,
          population_counts, entropy_values, event_source, open_figs,
          in_pause, n_updates, closed, call>>

(***************************************************************************)
(* Bounds of the model.                                                    *)
(***************************************************************************)
MaxCells == 6          \* grids of the function-level runs have at most this many cells
MaxSimCells == 8       \* grids of the simulation runs have at most this many cells
MaxKernelSize == 17    \* create_kernel is called with sizes -1 .. MaxKernelSize
MaxRuleLen == 5        \* rule strings of every length up to this are parsed
MaxApplyCells == 2     \* grids handed to apply_rule directly
MaxNeighbor == 3       \* entries of the neighbor matrices handed to apply_rule directly
MaxUpdates == 3        \* update calls per run
MaxPause == 2          \* update calls simultaneously inside plt.pause
FracBits == 8          \* binary digits kept after the point by the fixed-point numbers

(***************************************************************************)
(* Program constants.                                                      *)
(***************************************************************************)
KERNEL_SIZE == 3
RULE == <<"B", "3", "/", "S", "2", "3">>
RULE_w_statistics == <<"B", "3", "6", "8", "/", "S", "2", "4", "5">>
UINT8 == 256           \* np.uint8 holds values modulo 2^8
GRID == 0              \* the object id of the global array `grid`

(***************************************************************************)
(* numpy helpers.                                                          *)
(***************************************************************************)
Rows(a) == Cardinality(DOMAIN a)
Cols(a) == Cardinality(DOMAIN a[0])

full(h, w, v) == [r \in 0..(h - 1) |-> [c \in 0..(w - 1) |-> v]]

RECURSIVE SumTo(_, _)
\* f[0] + ... + f[n]
SumTo(f, n) == IF n < 0 THEN 0 ELSE f[n] + SumTo(f, n - 1)

\* np.sum(a): the accumulator of an unsigned 8-bit array is 64 bits wide
np_sum(a) ==
    SumTo([r \in DOMAIN a |-> SumTo(a[r], Cols(a) - 1)], Rows(a) - 1)

\* np.isin(x, conditions) for one element x
isin(x, conditions) == \E i \in 1..Len(conditions) : conditions[i] = x

\* a.astype(np.uint8)
astype_uint8(a) == [r \in DOMAIN a |-> [c \in DOMAIN a[r] |-> a[r][c] % UINT8]]

\* a % b with Python's sign convention, b > 0
PyMod(a, b) == a % b

(***************************************************************************)
(* Outcome of a call: a returned value or a raised exception.              *)
(***************************************************************************)
Return(v) == [ok |-> TRUE, ret |-> v, error |-> "none"]
Raise(e) == [ok |-> FALSE, ret |-> <<>>, error |-> e]

(***************************************************************************)
(* create_kernel                                                           *)
(***************************************************************************)
\* cellular_automata.py: np.ones((size, size)); kernel[size // 2, size // 2] = 0
create_kernel(size) ==
    IF size < 0 THEN Raise("ValueError")        \* np.ones: negative dimensions
    ELSE IF size = 0 THEN Raise("IndexError")   \* kernel[0, 0] of an empty array
    ELSE Return([full(size, size, 1) EXCEPT ![size \div 2][size \div 2] = 0])

\* cellular_w_statistics.py: the same code under the parameter name KERNEL_SIZE
create_kernel_w_statistics(size) ==
    IF size < 0 THEN Raise("ValueError")
    ELSE IF size = 0 THEN Raise("IndexError")
    ELSE Return([full(size, size, 1) EXCEPT ![size \div 2][size \div 2] = 0])

(***************************************************************************)
(* String helpers (str methods used by parse_rule).                        *)
(***************************************************************************)
Digits == <<"0", "1", "2", "3", "4", "5", "6", "7", "8", "9">>
IsDigit(ch) == \E i \in 1..10 : Digits[i] = ch
\* int(ch) for a one-character string that is a digit
int(ch) == (CHOOSE i \in 1..10 : Digits[i] = ch) - 1

\* ch in s
Contains(s, ch) == \E i \in 1..Len(s) : s[i] = ch
\* s.startswith(ch)
startswith(s, ch) == Len(s) >= 1 /\ s[1] = ch
\* s[1:]
From1(s) == IF Len(s) = 0 THEN <<>> ELSE SubSeq(s, 2, Len(s))

RECURSIVE split(_, _)
\* s.split(sep): the maximal runs between separators, empty runs included
split(s, sep) ==
    IF ~Contains(s, sep) THEN <<s>>
    ELSE LET i == CHOOSE i \in 1..Len(s) :
                      s[i] = sep /\ \A j \in 1..(i - 1) : s[j] # sep
         IN <<SubSeq(s, 1, i - 1)>> \o split(SubSeq(s, i + 1, Len(s)), sep)

\* list(map(int, s)) succeeds iff every character converts
AllDigits(s) == \A i \in 1..Len(s) : IsDigit(s[i])
map_int(s) == [i \in 1..Len(s) |-> int(s[i])]

(***************************************************************************)
(* parse_rule                                                              *)
(* Exceptions: "format" is the ValueError of line 26, "digits" the         *)
(* ValueError of lines 33-34, "unpack" the ValueError of unpacking a list  *)
(* that has not exactly two items, "int" the ValueError of int() itself.   *)
(***************************************************************************)
\* cellular_automata.py
parse_rule(rule) ==
    IF ~Contains(rule, "/") \/ ~startswith(rule, "B") \/ ~Contains(rule, "S")
    THEN Raise("format")
    ELSE LET parts == split(rule, "/") IN
         IF Len(parts) # 2 THEN Raise("unpack")
         ELSE LET birth == parts[1]
                  survive == parts[2]
              IN IF AllDigits(From1(birth)) /\ AllDigits(From1(survive))
                 THEN Return(<<map_int(From1(birth)), map_int(From1(survive))>>)
                 ELSE Raise("digits")

\* cellular_w_statistics.py: no validation at all
parse_rule_w_statistics(rule) ==
    LET parts == split(rule, "/") IN
    IF Len(parts) # 2 THEN Raise("unpack")
    ELSE LET birth == parts[1]
             survive == parts[2]
         IN IF AllDigits(From1(birth)) /\ AllDigits(From1(survive))
            THEN Return(<<map_int(From1(birth)), map_int(From1(survive))>>)
            ELSE Raise("int")

(***************************************************************************)
(* compute_neighbors                                                       *)
(***************************************************************************)
\* scipy.signal.convolve2d(in1, in2, mode='same', boundary='wrap'):
\* out[m][n] = sum over the kernel entries (j, i) of
\*     in1[(m + (kh-1)//2 - j) mod H][(n + (kw-1)//2 - i) mod W] * in2[j][i]
\* (the kernel is flipped, the output is centred on the input, indices wrap).
convolve2d(in1, in2) ==
    LET H == Rows(in1)
        W == Cols(in1)
        kh == Rows(in2)
        kw == Cols(in2)
        term(m, n) ==
            [j \in 0..(kh - 1) |->
                SumTo([i \in 0..(kw - 1) |->
                          in1[PyMod(m + ((kh - 1) \div 2) - j, H)]
                             [PyMod(n + ((kw - 1) \div 2) - i, W)] * in2[j][i]],
                      kw - 1)]
    IN [m \in 0..(H - 1) |-> [n \in 0..(W - 1) |-> SumTo(term(m, n), kh - 1)]]

\* cellular_automata.py. The sum is formed in (or cast to) 8 unsigned bits:
\* either way the stored entry is the sum modulo 256.
compute_neighbors(g, k) == astype_uint8(convolve2d(g, k))

\* cellular_w_statistics.py
compute_neighbors_w_statistics(g, k) == astype_uint8(convolve2d(g, k))

(***************************************************************************)
(* apply_rule.  Arrays are objects: a store maps object ids to array       *)
(* contents, and a call returns the store it leaves and the id it returns. *)
(***************************************************************************)
NewId(store) == Cardinality(DOMAIN store)

\* (g == v) & np.isin(neighbors, conditions)
mask(g, v, neighbors, conditions) ==
    [r \in DOMAIN g |-> [c \in DOMAIN g[r] |->
        g[r][c] = v /\ isin(neighbors[r][c], conditions)]]

\* a[m1 | m2] = 1
set_where(a, m1, m2) ==
    [r \in DOMAIN a |-> [c \in DOMAIN a[r] |->
        IF m1[r][c] \/ m2[r][c] THEN 1 ELSE a[r][c]]]

\* Variant: the survive mask tests for dead cells.
apply_rule_survive_dead(store, g, neighbors, birth, survive) ==
    LET birth_mask == mask(store[g], 0, neighbors, birth)
        survive_mask == mask(store[g], 0, neighbors, survive)
        store1 == [store EXCEPT ![g] = full(Rows(store[g]), Cols(store[g]), 0)]
        store2 == [store1 EXCEPT ![g] = set_where(store1[g], birth_mask, survive_mask)]
    IN [store |-> store2, ret |-> g]

\* Variant: the grid is reset before the survive mask is taken.
apply_rule_reset_first(store, g, neighbors, birth, survive) ==
    LET birth_mask == mask(store[g], 0, neighbors, birth)
        store1 == [store EXCEPT ![g] = full(Rows(store[g]), Cols(store[g]), 0)]
        survive_mask == mask(store1[g], 1, neighbors, survive)
        store2 == [store1 EXCEPT ![g] = set_where(store1[g], birth_mask, survive_mask)]
    IN [store |-> store2, ret |-> g]

\* cellular_automata.py: works in place and returns its argument
apply_rule(store, g, neighbors, birth, survive) ==
    LET birth_mask == mask(store[g], 0, neighbors, birth)
        survive_mask == mask(store[g], 1, neighbors, survive)
        \* grid[:] = 0
        store1 == [store EXCEPT ![g] = full(Rows(store[g]), Cols(store[g]), 0)]
        \* grid[birth_mask | survive_mask] = 1
        store2 == [store1 EXCEPT ![g] = set_where(store1[g], birth_mask, survive_mask)]
    IN [store |-> store2, ret |-> g]

\* Variant: works in place, as the other script does.
apply_rule_w_statistics_in_place(store, g, neighbors, birth, survive) ==
    apply_rule(store, g, neighbors, birth, survive)

\* cellular_w_statistics.py: allocates new_grid and returns it
apply_rule_w_statistics(store, g, neighbors, birth, survive) ==
    LET birth_mask == mask(store[g], 0, neighbors, birth)
        survive_mask == mask(store[g], 1, neighbors, survive)
        new_grid == NewId(store)
        \* new_grid = np.zeros_like(grid)
        store1 == store @@ (new_grid :> full(Rows(store[g]), Cols(store[g]), 0))
        \* new_grid[birth_mask | survive_mask] = 1
        store2 == [store1 EXCEPT ![new_grid] =
                      set_where(store1[new_grid], birth_mask, survive_mask)]
    IN [store |-> store2, ret |-> new_grid]

(***************************************************************************)
(* compute_entropy (cellular_w_statistics.py).                             *)
(* Floating point is modelled in fixed point: a value x stands for         *)
(* x / FIX.  log2 is the binary logarithm computed digit by digit.         *)
(***************************************************************************)
RECURSIVE pow2(_)
pow2(e) == IF e = 0 THEN 1 ELSE 2 * pow2(e - 1)

FIX == pow2(FracBits)

RECURSIVE ilog2(_)
\* the largest e with 2^e <= x, x >= 1
ilog2(x) == IF x < 2 THEN 0 ELSE 1 + ilog2(x \div 2)

RECURSIVE frac_bits(_, _)
\* the next `bits` binary digits of log2(m / FIX), FIX <= m < 2 * FIX
frac_bits(m, bits) ==
    IF bits = 0 THEN 0
    ELSE LET sq == (m * m) \div FIX
         IN IF sq >= 2 * FIX
            THEN pow2(bits - 1) + frac_bits(sq \div 2, bits - 1)
            ELSE frac_bits(sq, bits - 1)

\* np.log2(n / d) for integers 1 <= n <= d, in fixed point (a value <= 0)
log2_ratio(n, d) ==
    LET lg(x) == ilog2(x) * FIX + frac_bits((x * FIX) \div pow2(ilog2(x)), FracBits)
    IN lg(n) - lg(d)

compute_entropy(g) ==
    LET total_cells == Rows(g) * Cols(g)
        alive == np_sum(g)              \* p_alive = alive / total_cells
        dead == total_cells - alive     \* p_dead = 1 - p_alive
        e0 == 0
        e1 == IF alive > 0
              THEN e0 - ((alive * log2_ratio(alive, total_cells)) \div total_cells)
              ELSE e0
        e2 == IF dead > 0
              THEN e1 - ((dead * log2_ratio(dead, total_cells)) \div total_cells)
              ELSE e1
    IN e2

(***************************************************************************)
(* update                                                                  *)
(***************************************************************************)
\* cellular_automata.py: the contents of `grid` after the call.  The value
\* apply_rule returns is discarded; img.set_data(grid) shows the same object.
update(g, birth, survive, k) ==
    LET store == (GRID :> g)
        neighbors == compute_neighbors(store[GRID], k)
        r == apply_rule(store, GRID, neighbors, birth, survive)
    IN r.store[GRID]

\* Variant: the entropy is taken before the grid is replaced.
update_w_statistics_stale_entropy(g, birth, survive, k, populations, entropies) ==
    LET store == (GRID :> g)
        neighbors == compute_neighbors_w_statistics(store[GRID], k)
        r == apply_rule_w_statistics(store, GRID, neighbors, birth, survive)
        entropy == compute_entropy(r.store[GRID])
        store2 == [r.store EXCEPT ![GRID] = r.store[r.ret]]
        live_cells == np_sum(store2[GRID])
    IN [grid |-> store2[GRID],
        population_counts |-> Append(populations, live_cells),
        entropy_values |-> Append(entropies, entropy)]

\* cellular_w_statistics.py, lines 67-79: what the call has written when it
\* reaches the plotting code (which changes no state of the model).
update_w_statistics(g, birth, survive, k, populations, entropies) ==
    LET store == (GRID :> g)
        neighbors == compute_neighbors_w_statistics(store[GRID], k)
        r == apply_rule_w_statistics(store, GRID, neighbors, birth, survive)
        \* grid[:] = new_grid
        store2 == [r.store EXCEPT ![GRID] = r.store[r.ret]]
        live_cells == np_sum(store2[GRID])
        entropy == compute_entropy(store2[GRID])
    IN [grid |-> store2[GRID],
        population_counts |-> Append(populations, live_cells),
        entropy_values |-> Append(entropies, entropy)]

(***************************************************************************)
(* on_close: the state of ani.event_source after the call.                 *)
(***************************************************************************)
\* cellular_automata.py
on_close(source) == IF source # "None" THEN "stopped" ELSE source

\* Variant: the timer is left running.
on_close_w_statistics_no_stop(source) == source

\* cellular_w_statistics.py
on_close_w_statistics(source) == IF source # "None" THEN "stopped" ELSE source

(***************************************************************************)
(* Input sets.                                                             *)
(***************************************************************************)
Shapes(cells) ==
    {s \in (1..cells) \X (1..cells) : s[1] * s[2] <= cells}

GridsOfShape(h, w, values) == [0..(h - 1) -> [0..(w - 1) -> values]]

Grids(cells) == UNION {GridsOfShape(s[1], s[2], {0, 1}) : s \in Shapes(cells)}

Alphabet == {"B", "S", "/", "2", "3", "x"}

RuleStrings ==
    UNION {[1..n -> Alphabet] : n \in 0..MaxRuleLen}
        \cup {RULE, RULE_w_statistics, <<"B", "x", "/", "S", "y">>}

\* the 3x3 grid whose only alive cell is (0, 0)
OneAlive33 == [full(3, 3, 0) EXCEPT ![0][0] = 1]

NeighborGrids == Grids(MaxCells) \cup {OneAlive33}

ConditionLists == {<<>>, <<3>>, <<2, 3>>, <<0, 1>>}

NoCall == [fn |-> "none", script |-> 0, args |-> <<>>, out |-> <<>>]

(***************************************************************************)
(* The simulation: main() has run, the timer of FuncAnimation drives       *)
(* update, the windows can be closed.                                      *)
(***************************************************************************)
Main(sc, g) ==
    /\ script = sc
    /\ grid = g
    /\ LET rule == IF sc = 1 THEN parse_rule(RULE)
                   ELSE parse_rule_w_statistics(RULE_w_statistics)
       IN /\ birth_conditions = rule.ret[1]
          /\ survive_conditions = rule.ret[2]
    /\ kernel = IF sc = 1 THEN create_kernel(KERNEL_SIZE).ret
                ELSE create_kernel_w_statistics(KERNEL_SIZE).ret
    /\ population_counts = <<>>
    /\ entropy_values = <<>>
    /\ event_source = "running"
    /\ open_figs = IF sc = 1 THEN {"fig"} ELSE {"fig", "stats_fig"}
    /\ in_pause = 0
    /\ n_updates = 0
    /\ closed = FALSE
    /\ call = NoCall

Init == \E sc \in {1, 2} : \E g \in Grids(MaxSimCells) : Main(sc, g)

\* The timer fires and FuncAnimation calls update (cellular_automata.py).
Update ==
    /\ script = 1
    /\ event_source = "running"
    /\ n_updates < MaxUpdates
    /\ grid' = update(grid, birth_conditions, survive_conditions, kernel)
    /\ n_updates' = n_updates + 1
    /\ UNCHANGED <<script, birth_conditions, survive_conditions, kernel,
                   population_counts, entropy_values, event_source, open_figs,
                   in_pause, closed, call>>

\* The timer fires and FuncAnimation calls update (cellular_w_statistics.py):
\* lines 67-110, up to the entry into plt.pause.  The timer is served by the
\* GUI event loop, which runs at top level (plt.show) and inside plt.pause.
UpdateWStatistics ==
    /\ script = 2
    /\ event_source = "running"
    /\ n_updates < MaxUpdates
    /\ in_pause < MaxPause
    /\ LET r == update_w_statistics(grid, birth_conditions, survive_conditions,
                                    kernel, population_counts, entropy_values)
       IN /\ grid' = r.grid
          /\ population_counts' = r.population_counts
          /\ entropy_values' = r.entropy_values
    /\ n_updates' = n_updates + 1
    /\ in_pause' = in_pause + 1
    /\ UNCHANGED <<script, birth_conditions, survive_conditions, kernel,
                   event_source, open_figs, closed, call>>

\* plt.pause(0.01) ends and update returns (lines 111-113).
PauseReturn ==
    /\ in_pause > 0
    /\ in_pause' = in_pause - 1
    /\ UNCHANGED <<script, grid, birth_conditions, survive_conditions, kernel,
                   population_counts, entropy_values, event_source, open_figs,
                   n_updates, closed, call>>

\* A window is closed.  FuncAnimation connected its own close handler to the
\* animated figure before main() connected on_close: it detaches the timer
\* and sets ani.event_source to None, and on_close runs after it.
CloseEvent ==
    /\ script \in {1, 2}
    /\ \E f \in open_figs :
          /\ open_figs' = open_figs \ {f}
          /\ LET source == IF f = "fig" THEN "None" ELSE event_source
             IN event_source' = IF script = 1 THEN on_close(source)
                                ELSE on_close_w_statistics(source)
    /\ closed' = TRUE
    /\ UNCHANGED <<script, grid, birth_conditions, survive_conditions, kernel,
                   population_counts, entropy_values, in_pause, n_updates, call>>

Next == Update \/ UpdateWStatistics \/ PauseReturn \/ CloseEvent

Spec == Init /\ [][Next]_vars

(***************************************************************************)
(* Function-level runs: one of the functions is called directly on inputs  *)
(* drawn from the input sets, and `call` records the call.                 *)
(***************************************************************************)
Idle ==
    /\ script = 0
    /\ grid = <<>>
    /\ birth_conditions = <<>>
    /\ survive_conditions = <<>>
    /\ kernel = <<>>
    /\ population_counts = <<>>
    /\ entropy_values = <<>>
    /\ event_source = "None"
    /\ open_figs = {}
    /\ in_pause = 0
    /\ n_updates = 0
    /\ closed = FALSE
    /\ call = NoCall

SimUnchanged ==
    UNCHANGED <<script, grid, birth_conditions, survive_conditions, kernel,
                population_counts, entropy_values, event_source, open_figs,
                in_pause, n_updates, closed>>

\* ---- parse_rule ----
CallParseRule ==
    /\ call.fn = "none"
    /\ \E rule \in RuleStrings :
          call' = [fn |-> "parse_rule", script |-> 1,
                   args |-> [rule |-> rule], out |-> parse_rule(rule)]
    /\ SimUnchanged

CallParseRuleWStatistics ==
    /\ call.fn = "none"
    /\ \E rule \in RuleStrings :
          call' = [fn |-> "parse_rule", script |-> 2,
                   args |-> [rule |-> rule], out |-> parse_rule_w_statistics(rule)]
    /\ SimUnchanged

NextParse == CallParseRule \/ CallParseRuleWStatistics

SpecParse == Idle /\ [][NextParse]_vars

\* ---- create_kernel, then compute_neighbors with the kernel it returned ----
CallCreateKernel ==
    /\ call.fn = "none"
    /\ \E size \in (-1)..MaxKernelSize :
          call' = [fn |-> "create_kernel", script |-> 1,
                   args |-> [size |-> size], out |-> create_kernel(size)]
    /\ SimUnchanged

CallCreateKernelWStatistics ==
    /\ call.fn = "none"
    /\ \E size \in (-1)..MaxKernelSize :
          call' = [fn |-> "create_kernel", script |-> 2,
                   args |-> [size |-> size], out |-> create_kernel_w_statistics(size)]
    /\ SimUnchanged

CallComputeNeighbors ==
    /\ call.fn = "create_kernel"
    /\ call.script = 1
    /\ call.out.ok
    /\ \E g \in NeighborGrids :
          call' = [fn |-> "compute_neighbors", script |-> 1,
                   args |-> [grid |-> g, kernel |-> call.out.ret],
                   out |-> Return(compute_neighbors(g, call.out.ret))]
    /\ SimUnchanged

CallComputeNeighborsWStatistics ==
    /\ call.fn = "create_kernel"
    /\ call.script = 2
    /\ call.out.ok
    /\ \E g \in NeighborGrids :
          call' = [fn |-> "compute_neighbors", script |-> 2,
                   args |-> [grid |-> g, kernel |-> call.out.ret],
                   out |-> Return(compute_neighbors_w_statistics(g, call.out.ret))]
    /\ SimUnchanged

NextKernel ==
    \/ CallCreateKernel
    \/ CallCreateKernelWStatistics
    \/ CallComputeNeighbors
    \/ CallComputeNeighborsWStatistics

SpecKernel == Idle /\ [][NextKernel]_vars

\* ---- apply_rule ----
ApplyInputs ==
    UNION {GridsOfShape(sh[1], sh[2], {0, 1}) \X GridsOfShape(sh[1], sh[2], 0..MaxNeighbor)
              : sh \in Shapes(MaxApplyCells)}

CallApplyRule ==
    /\ call.fn = "none"
    /\ \E in \in ApplyInputs : \E birth \in ConditionLists : \E survive \in ConditionLists :
          LET store == (GRID :> in[1])
          IN call' = [fn |-> "apply_rule", script |-> 1,
                      args |-> [store |-> store, grid |-> GRID, neighbors |-> in[2],
                                birth |-> birth, survive |-> survive],
                      out |-> apply_rule(store, GRID, in[2], birth, survive)]
    /\ SimUnchanged

CallApplyRuleWStatistics ==
    /\ call.fn = "none"
    /\ \E in \in ApplyInputs : \E birth \in ConditionLists : \E survive \in ConditionLists :
          LET store == (GRID :> in[1])
          IN call' = [fn |-> "apply_rule", script |-> 2,
                      args |-> [store |-> store, grid |-> GRID, neighbors |-> in[2],
                                birth |-> birth, survive |-> survive],
                      out |-> apply_rule_w_statistics(store, GRID, in[2], birth, survive)]
    /\ SimUnchanged

NextApply == CallApplyRule \/ CallApplyRuleWStatistics

SpecApply == Idle /\ [][NextApply]_vars

(***************************************************************************)
(* Reference definitions used by the properties (not taken from the code). *)
(***************************************************************************)
Range(seq) == {seq[i] : i \in 1..Len(seq)}

Cells(a) == {<<r, c>> : r \in DOMAIN a, c \in DOMAIN a[0]}

SameShape(a, b) ==
    /\ DOMAIN a = DOMAIN b
    /\ \A r \in DOMAIN a : DOMAIN a[r] = DOMAIN b[r]

\* number of alive cells
AliveCells(g) == Cardinality({p \in Cells(g) : g[p[1]][p[2]] = 1})

\* the non-center offsets of a k x k neighborhood, k odd
Offsets(k) ==
    {d \in ((-(k \div 2))..(k \div 2)) \X ((-(k \div 2))..(k \div 2)) : d # <<0, 0>>}

\* number of offsets of the k x k neighborhood at which (r, c) sees an alive
\* cell on the torus
TrueCount(g, k, r, c) ==
    Cardinality({d \in Offsets(k) :
                    g[(r + d[1]) % Rows(g)][(c + d[2]) % Cols(g)] = 1})

\* the transition of one cell
Transition(cell, count, birth, survive) ==
    IF (cell = 0 /\ count \in birth) \/ (cell = 1 /\ count \in survive) THEN 1 ELSE 0

\* the generation that follows g under the rule and kernel of the script
NextGeneration(g, sc) ==
    LET birth == IF sc = 1 THEN {3} ELSE {3, 6, 8}
        survive == IF sc = 1 THEN {2, 3} ELSE {2, 4, 5}
    IN [r \in DOMAIN g |-> [c \in DOMAIN g[r] |->
           Transition(g[r][c], TrueCount(g, KERNEL_SIZE, r, c), birth, survive)]]

IsDigitRun(s) == Len(s) >= 1 /\ \A i \in 1..Len(s) : IsDigit(s[i])

\* B<digits>/S<digits>
Canonical(s) ==
    \E i \in 1..Len(s) :
        /\ s[i] = "/"
        /\ s[1] = "B"
        /\ IsDigitRun(SubSeq(s, 2, i - 1))
        /\ i < Len(s)
        /\ s[i + 1] = "S"
        /\ IsDigitRun(SubSeq(s, i + 2, Len(s)))

\* no "/", no leading "B", or no "S" directly after the separator
FormatBroken(s) ==
    \/ ~Contains(s, "/")
    \/ ~startswith(s, "B")
    \/ LET i == CHOOSE i \in 1..Len(s) : s[i] = "/" /\ \A j \in 1..(i - 1) : s[j] # "/"
       IN i = Len(s) \/ s[i + 1] # "S"

KernelSizeOf(k) == Rows(k)
OddFrom3(k) == k >= 3 /\ k % 2 = 1

(***************************************************************************)
(* Properties.                                                             *)
(***************************************************************************)

\* C1: the grid apply_rule yields (either script) has a cell at 1 exactly when
\* the input cell is 0 and its neighbor count is a birth condition, or the
\* input cell is 1 and its neighbor count is a survive condition; 0 otherwise.
ApplyRuleTransition ==
    call.fn = "apply_rule" =>
        LET g == call.args.store[call.args.grid]
            out == call.out.store[call.out.ret]
        IN /\ SameShape(out, g)
           /\ \A p \in Cells(g) :
                 out[p[1]][p[2]] =
                     Transition(g[p[1]][p[2]], call.args.neighbors[p[1]][p[2]],
                                Range(call.args.birth), Range(call.args.survive))

\* A call in which one cell is born and another one dies.
ApplyRuleBirthAndDeath ==
    /\ call.fn = "apply_rule"
    /\ LET g == call.args.store[call.args.grid]
           out == call.out.store[call.out.ret]
       IN \E p, q \in Cells(g) :
             /\ g[p[1]][p[2]] = 0 /\ out[p[1]][p[2]] = 1
             /\ g[q[1]][q[2]] = 1 /\ out[q[1]][q[2]] = 0

\* C3 as stated: apply_rule (either script) leaves the grid it was given as
\* it was and returns another object.
ApplyRuleNeverMutates ==
    call.fn = "apply_rule" =>
        /\ call.out.store[call.args.grid] = call.args.store[call.args.grid]
        /\ call.out.ret # call.args.grid

\* C3 amended: apply_rule of cellular_w_statistics.py leaves the grid it was
\* given as it was and returns a new object; apply_rule of cellular_automata.py
\* returns the object it was given, allocates nothing, and that object holds
\* the new generation.
ApplyRuleMutationPerScript ==
    call.fn = "apply_rule" =>
        /\ call.script = 2 =>
              /\ call.out.store[call.args.grid] = call.args.store[call.args.grid]
              /\ call.out.ret # call.args.grid
              /\ call.out.ret \notin DOMAIN call.args.store
        /\ call.script = 1 =>
              /\ call.out.ret = call.args.grid
              /\ DOMAIN call.out.store = DOMAIN call.args.store

\* A call of the allocating apply_rule whose result differs from its input.
ApplyRuleNewGridDiffers ==
    /\ call.fn = "apply_rule"
    /\ call.script = 2
    /\ call.out.store[call.out.ret] # call.args.store[call.args.grid]

\* C4: parse_rule (either script) returns conditions exactly for the strings
\* B<digits>/S<digits>, fails with the format error when the "/", the leading
\* "B" or the "S" after the separator is missing, and with the digits error
\* when only a digit run is wrong.  (A failed unpacking of the split is
\* counted as a format error, a failed int() as a digits error.)
ParseRuleValidates ==
    call.fn = "parse_rule" =>
        LET s == call.args.rule
        IN /\ call.out.ok <=> Canonical(s)
           /\ FormatBroken(s) => call.out.error \in {"format", "unpack"}
           /\ (~FormatBroken(s) /\ ~Canonical(s)) => call.out.error \in {"digits", "int"}

\* C5: create_kernel (either script) fails for a size that is even or below 3,
\* and for an odd size k >= 3 returns a k x k mask, 0 at the center, 1 elsewhere.
CreateKernelValidates ==
    call.fn = "create_kernel" =>
        LET k == call.args.size
        IN IF OddFrom3(k)
           THEN /\ call.out.ok
                /\ DOMAIN call.out.ret = 0..(k - 1)
                /\ \A r \in 0..(k - 1) :
                      /\ DOMAIN call.out.ret[r] = 0..(k - 1)
                      /\ \A c \in 0..(k - 1) :
                            call.out.ret[r][c] =
                                IF r = k \div 2 /\ c = k \div 2 THEN 0 ELSE 1
           ELSE ~call.out.ok

\* C2: for a kernel of odd size k >= 3, compute_neighbors (either script)
\* returns a matrix of the grid's shape whose entry at (r, c) is the number of
\* alive cells at the non-center offsets around (r, c) on the torus; on the
\* 3x3 grid whose only alive cell is (0, 0), with the 3x3 kernel, the entries
\* at (2, 2) and (1, 1) are 1.
NeighborsAreTrueCount ==
    (call.fn = "compute_neighbors" /\ OddFrom3(KernelSizeOf(call.args.kernel))) =>
        LET g == call.args.grid
            k == KernelSizeOf(call.args.kernel)
        IN /\ SameShape(call.out.ret, g)
           /\ \A p \in Cells(g) :
                 call.out.ret[p[1]][p[2]] = TrueCount(g, k, p[1], p[2])
           /\ (g = OneAlive33 /\ k = 3) =>
                 (call.out.ret[2][2] = 1 /\ call.out.ret[1][1] = 1)

\* C10: for a kernel of odd size k >= 3 the matrix compute_neighbors stores
\* (either script) is the matrix of exact sums, not of sums modulo 256.
NeighborsNeverWrap ==
    (call.fn = "compute_neighbors" /\ OddFrom3(KernelSizeOf(call.args.kernel))) =>
        call.out.ret = convolve2d(call.args.grid, call.args.kernel)

\* Below the width of the cell type the counts are the true counts: for odd
\* kernel sizes k with 3 <= k and k * k - 1 < 256.
NeighborsTrueBelowWrap ==
    (/\ call.fn = "compute_neighbors"
     /\ OddFrom3(KernelSizeOf(call.args.kernel))
     /\ KernelSizeOf(call.args.kernel) * KernelSizeOf(call.args.kernel) - 1 < UINT8) =>
        \A p \in Cells(call.args.grid) :
            call.out.ret[p[1]][p[2]] =
                TrueCount(call.args.grid, KernelSizeOf(call.args.kernel), p[1], p[2])

\* C6: in cellular_w_statistics.py both series have one entry per update call
\* made so far; an update call appends to each series one entry, the alive
\* count (between 0 and the number of cells) and the entropy of the grid that
\* call produced, and nothing else changes the series.
StatisticsAligned ==
    /\ [](script = 2 =>
            /\ Len(population_counts) = n_updates
            /\ Len(entropy_values) = n_updates
            /\ \A i \in 1..Len(population_counts) :
                  population_counts[i] \in 0..(Rows(grid) * Cols(grid)))
    /\ [][(script = 2 /\ n_updates' = n_updates + 1) =>
            /\ population_counts' = Append(population_counts, AliveCells(grid'))
            /\ entropy_values' = Append(entropy_values, compute_entropy(grid'))]_vars
    /\ [][n_updates' = n_updates =>
            UNCHANGED <<population_counts, entropy_values>>]_vars

\* Two nested update calls have recorded two different populations.
TwoEntriesRecorded ==
    /\ script = 2
    /\ in_pause = 2
    /\ Len(population_counts) = 2
    /\ population_counts[1] # population_counts[2]
    /\ entropy_values[1] # entropy_values[2]

StepsNeverOverlap == in_pause <= 1

\* C9: an update call (either script) leaves the grid at the generation that
\* follows the grid as it was before the call: counts and masks are all taken
\* from the grid before the call.
SynchronousGeneration ==
    [][n_updates' = n_updates + 1 => grid' = NextGeneration(grid, script)]_vars

\* The in-place script has made two updates and cells are alive after them.
InPlaceGenerationAlive ==
    /\ script = 1
    /\ n_updates = 2
    /\ AliveCells(grid) >= 1
    /\ AliveCells(grid) < Rows(grid) * Cols(grid)

====
